---- MODULE Spec2Model ----
(***************************************************************************)
(* Model of the two stateful cores of the gardrob virtual try-on app:      *)
(*   - the bounded image loader, lib/useImageQueue.ts                      *)
(*     (src/unnamed/part_010, lines 246-321);                              *)
(*   - the outfit layer store kept by the App component                    *)
(*     (src/App.tsx, lines 450-779).                                       *)
(* The two components are independent: SpecLoader runs the loader only,    *)
(* SpecStore the layer store only.                                         *)
(***************************************************************************)
EXTENDS Integers, Sequences, FiniteSets, Bags, TLC

\* ------------------------------------------------------------------------
\* Bounds of the model
\* ------------------------------------------------------------------------

\* the `concurrency` argument the consumers pass to useImageQueue
Concurrency == 1

\* the number of load(src) calls made over a run
MaxCalls == 3

\* the urls that are loaded
Urls == {"u1", "u2", "u3"}

\* the consumers: one useImageQueue instance per mounted component
Instances == {"A", "B"}

\* the number of asynchronous operations (garment clicks, pose generations) a
\* run starts
MaxOps == 3

\* the models of the user (UserModel.id)
Models == {"m1"}

\* the ids of the wardrobe items
GarmentIds == {"g1", "g2"}

\* indices into POSE_INSTRUCTIONS; index 0 is the default pose
Poses == {0, 1, 2}

VARIABLES
    CACHE,      \* module-level Map url -> url, as the set of its keys
    PENDING,    \* module-level Set of urls in flight
    queueRef,   \* per instance: the queued jobs (call ids), oldest first
    activeRef,  \* per instance: the counter of running jobs
    running,    \* jobs whose fetch (new Image(); img.src = src) was started and has not completed
    calls,      \* every load(src) call made so far, with the state of the promise it returned
    tornDown    \* per instance: its effect cleanup has run

VARIABLES
    appState,          \* [view, model]: the screen shown and the model selected
    outfitHistory,     \* sequence of OutfitLayer [garment, imageUrl]
    currentPoseIndex,  \* index into POSE_INSTRUCTIONS
    poseVariations,    \* Record<number, string>: pose index -> image of the topmost layer
    isLoading,
    inflight,          \* bag of the asynchronous calls awaited by handlers that have not returned
    ops,               \* history: the number of asynchronous operations started so far
    lastOp,            \* history: the handler or continuation that ran last
    sym,               \* history: the history after the last initialize, the successful
                       \* applies since then and how many of them no removeLastGarment
                       \* call has matched yet
    savedOutfits,      \* the SavedOutfit [previewImageUrl, layers] of the user, as a set
    isSavedOutfitsOpen \* the saved outfits modal is shown

\* The App component with poseImages in every layer (the first App of
\* src/App.tsx); its state has the suffix V1 where the name is also a name of
\* the other App.
VARIABLES
    screen,              \* SCREENS.*
    selectedModel,       \* UserModel | null
    outfitHistoryV1,     \* sequence of OutfitLayer [garment, poseImages]
    currentPoseIndexV1,
    isLoadingV1,
    inflightV1,          \* bag of the asynchronous calls awaited by its handlers
    opsV1,               \* history: the number of asynchronous operations started so far
    lastOpV1             \* history: the handler or continuation that ran last

\* handleLoadOutfit as a function of the saved outfit and the wardrobe
VARIABLES
    loadInput,   \* [wardrobe, outfit]: the wardrobe and the saved outfit of a load
    loadResult   \* the layers handleLoadOutfit builds from them

\* lib/storage: the Firestore document of one user and the calls that write it
VARIABLES
    userDoc,   \* the stored document: [models, wardrobe, hiddenDefaultGarments]
    writes     \* the calls made so far: [op, arg, phase, userData]

loaderVars == <<CACHE, PENDING, queueRef, activeRef, running, calls, tornDown>>

\* the state of the saved outfits
savedVars == <<savedOutfits, isSavedOutfitsOpen>>

storeVars == <<appState, outfitHistory, currentPoseIndex, poseVariations, isLoading,
               inflight, ops, lastOp, sym, savedVars>>

storeVarsV1 == <<screen, selectedModel, outfitHistoryV1, currentPoseIndexV1, isLoadingV1,
                 inflightV1, opsV1, lastOpV1>>

loadVars == <<loadInput, loadResult>>

storageVars == <<userDoc, writes>>

vars == <<loaderVars, storeVars, storeVarsV1, loadVars, storageVars>>

\* what the steps of one component leave unchanged
exceptLoader == <<storeVars, storeVarsV1, loadVars, storageVars>>
exceptStore == <<loaderVars, storeVarsV1, loadVars, storageVars>>
exceptStoreV1 == <<loaderVars, storeVars, loadVars, storageVars>>
exceptLoad == <<loaderVars, storeVars, storeVarsV1, storageVars>>
exceptStorage == <<loaderVars, storeVars, storeVarsV1, loadVars>>

\* ------------------------------------------------------------------------
\* Bounded image loader
\* ------------------------------------------------------------------------

CallIds == 1..Len(calls)

\* pump() with the comparison off by one
PumpGuardOffByOne(active, queue) == active <= Concurrency /\ queue # <<>>

\* the loop condition of pump()
PumpGuard(active, queue) == active < Concurrency /\ queue # <<>>

\* queueRef.current.pop(): the newest job is taken
QueuePop(queue) ==
    [job |-> queue[Len(queue)], rest |-> SubSeq(queue, 1, Len(queue) - 1)]

\* queueRef.current.shift(): the oldest job is taken
QueueShift(queue) == [job |-> Head(queue), rest |-> Tail(queue)]

\* pump(): while the guard holds, shift a job, count it and start it
RECURSIVE Pump(_)
Pump(st) ==
    IF PumpGuard(st.active, st.queue)
    THEN Pump([active |-> st.active + 1,
               queue  |-> QueueShift(st.queue).rest,
               started |-> st.started \cup {QueueShift(st.queue).job}])
    ELSE st

\* schedule(task): push the task, then pump()
Schedule(active, queue, job) ==
    Pump([active |-> active, queue |-> Append(queue, job), started |-> {}])

\* load(src) without the look-up in CACHE
LoadKindNoCache(src, cache, pending) ==
    IF src \in pending THEN "wait" ELSE "fetch"

\* the three branches of load(src)
LoadKind(src, cache, pending) ==
    IF src \in cache THEN "hit"
    ELSE IF src \in pending THEN "wait"
    ELSE "fetch"

\* the jobs of `started` are marked as started by the call `by`: its own load
\* (schedule -> pump) or the completion of job `by` (finally -> pump)
MarkStarted(cs, started, by) ==
    [d \in DOMAIN cs |-> IF d \in started THEN [cs[d] EXCEPT !.startedBy = by] ELSE cs[d]]

\* load(src) called on instance i
Load(i, src) ==
    /\ Len(calls) < MaxCalls
    /\ LET kind == LoadKind(src, CACHE, PENDING)
           c    == Len(calls) + 1
           new  == [inst |-> i, src |-> src, kind |-> kind, startedBy |-> 0,
                    state |-> IF kind = "hit" THEN "resolved" ELSE "pending"]
       IN
       /\ IF kind = "fetch"
          THEN LET st == Schedule(activeRef[i], queueRef[i], c) IN
               /\ calls' = MarkStarted(Append(calls, new), st.started, c)
               /\ PENDING' = PENDING \cup {src}
               /\ queueRef' = [queueRef EXCEPT ![i] = st.queue]
               /\ activeRef' = [activeRef EXCEPT ![i] = st.active]
               /\ running' = running \cup st.started
          ELSE /\ calls' = Append(calls, new)
               /\ UNCHANGED <<PENDING, queueRef, activeRef, running>>
    /\ UNCHANGED <<CACHE, tornDown>>

\* a job that removes the marker on success only (no finally block)
JobFinallyKeepsMarker(pending, src) ==
    IF src \in CACHE' THEN pending \ {src} ELSE pending

\* the finally block of a job: the in-flight marker of its url is removed
JobFinally(pending, src) == pending \ {src}

\* the fetch of job c completes (img.onload / img.onerror); the job settles the
\* promise, clears the marker, and the finally handler that pump attached
\* decrements the counter and pumps again
FetchDone(c, ok) ==
    /\ c \in running
    /\ LET i   == calls[c].inst
           src == calls[c].src
           st  == Pump([active |-> activeRef[i] - 1, queue |-> queueRef[i], started |-> {}])
       IN
       /\ CACHE' = IF ok THEN CACHE \cup {src} ELSE CACHE
       /\ calls' = MarkStarted(
                     [calls EXCEPT ![c].state = IF ok THEN "resolved" ELSE "rejected"],
                     st.started, c)
       /\ PENDING' = JobFinally(PENDING, src)
       /\ activeRef' = [activeRef EXCEPT ![i] = st.active]
       /\ queueRef' = [queueRef EXCEPT ![i] = st.queue]
       /\ running' = (running \ {c}) \cup st.started
    /\ UNCHANGED tornDown

\* a tick of the 30 ms interval of a caller that found its url in PENDING
PollTick(c) ==
    /\ c \in CallIds
    /\ calls[c].kind = "wait"
    /\ calls[c].state = "pending"
    /\ calls[c].src \in CACHE
    /\ calls' = [calls EXCEPT ![c].state = "resolved"]
    /\ UNCHANGED <<CACHE, PENDING, queueRef, activeRef, running, tornDown>>

\* the cleanup of the instance's effect (the consumer unmounts)
CleanupEffect(i) ==
    /\ ~tornDown[i]
    /\ queueRef' = [queueRef EXCEPT ![i] = <<>>]
    /\ activeRef' = [activeRef EXCEPT ![i] = 0]
    /\ PENDING' = {}
    /\ tornDown' = [tornDown EXCEPT ![i] = TRUE]
    /\ UNCHANGED <<CACHE, running, calls>>

InitLoader ==
    /\ CACHE = {}
    /\ PENDING = {}
    /\ queueRef = [i \in Instances |-> <<>>]
    /\ activeRef = [i \in Instances |-> 0]
    /\ running = {}
    /\ calls = <<>>
    /\ tornDown = [i \in Instances |-> FALSE]

\* ------------------------------------------------------------------------
\* Outfit layer store (App component)
\* ------------------------------------------------------------------------

\* An image reference is an opaque string in the code.  Here it is the sequence
\* of the steps that produced it: the model's image <<m>>, the result of a
\* try-on of garment g on base image b: b \o <<g>>, the result of a pose
\* variation p of base image b: b \o <<"pose", p>>.  The empty string is <<>>.
EmptyImage == <<>>

\* UserModel.imageUrl of model m
ModelImage(m) == <<m>>

\* what generateVirtualTryOnImage(base, garment file) resolves to
TryOnImage(base, g) == base \o <<g>>

\* what generatePoseVariation(base, POSE_INSTRUCTIONS[p]) resolves to
PoseImage(base, p) == base \o <<"pose", ToString(p)>>

\* the wardrobe item with id g (WardrobeItem)
Item(g) == [id |-> g, category |-> "Tops"]

\* garment: null of the root layer
NullGarment == [id |-> "null", category |-> "none"]

\* a JavaScript truthiness test of a string | undefined
Truthy(img) == img # EmptyImage

\* poseVariations[index]; a missing key reads undefined, which is falsy as '' is
PoseLookup(pv, index) == IF index \in DOMAIN pv THEN pv[index] ELSE EmptyImage

\* outfitHistory[outfitHistory.length - 1]?.imageUrl
TopImage(h) == IF h = <<>> THEN EmptyImage ELSE h[Len(h)].imageUrl

\* displayImageUrl = poseVariations[currentPoseIndex] || outfitHistory[last]?.imageUrl
DisplayImage(pv, index, h) ==
    IF Truthy(PoseLookup(pv, index)) THEN PoseLookup(pv, index) ELSE TopImage(h)

displayImageUrl == DisplayImage(poseVariations, currentPoseIndex, outfitHistory)

\* activeGarmentIds = outfitHistory.map(l => l.garment?.id).filter(Boolean)
activeGarmentIds ==
    {outfitHistory[k].garment.id : k \in 1..Len(outfitHistory)} \ {NullGarment.id}

\* the non-default poses with an image in poseVariations
CachedPoses(pv) == {p \in Poses \ {0} : Truthy(PoseLookup(pv, p))}

\* no saved outfit
NoOutfit == [previewImageUrl |-> EmptyImage, layers |-> <<>>]

NoOp == [name |-> "none", pose |-> 0, lenBefore |-> 0, cachedBefore |-> {}, after |-> "none",
         outfit |-> NoOutfit]

\* the record of the handler that has just run
Op(name, pose) == [NoOp EXCEPT !.name = name, !.pose = pose]

\* an initialize, with the length of the history, the pose index and the cached
\* non-default poses it replaced
OpInit == [NoOp EXCEPT !.name = "initialize", !.pose = currentPoseIndex,
                        !.lenBefore = Len(outfitHistory),
                        !.cachedBefore = CachedPoses(poseVariations)]

\* a removeLastGarment call, with the length of the history it found
OpRemove == [NoOp EXCEPT !.name = "removeLastGarment", !.lenBefore = Len(outfitHistory)]

\* a successful apply, with the non-default poses that were cached before it
OpApplied == [NoOp EXCEPT !.name = "applyOk", !.cachedBefore = CachedPoses(poseVariations)]

\* a handleSelectPose call, with what it follows directly: a successful
\* generation of the same pose, a successful apply (and then the poses that
\* were cached before that apply), or anything else
OpSelect(name, p) ==
    [NoOp EXCEPT !.name = name, !.pose = p,
                 !.after = IF lastOp.name = "poseOk" /\ lastOp.pose = p THEN "samePoseOk"
                           ELSE IF lastOp.name = "applyOk" THEN "applyOk"
                           ELSE "none",
                 !.cachedBefore = IF lastOp.name = "applyOk" THEN lastOp.cachedBefore ELSE {}]

\* the awaited call a has settled
Without(bag, a) == bag (-) SetToBag({a})

\* a handler reaches its await of call a
With(bag, a) == bag (+) SetToBag({a})

Awaited(kind, g, base, p) ==
    [kind |-> kind, garment |-> g, base |-> base, pose |-> p, layers |-> <<>>]

\* the run may start another asynchronous operation
Room == ops < MaxOps

\* transitionToDressingRoom without the reset of the pose state
TransitionKeepsPoseState(m) ==
    /\ outfitHistory' = <<[garment |-> NullGarment, imageUrl |-> ModelImage(m)]>>
    /\ appState' = [view |-> "dressing_room", model |-> m]
    /\ UNCHANGED <<poseVariations, currentPoseIndex>>

\* transitionToDressingRoom(userId, model)
TransitionToDressingRoom(m) ==
    /\ outfitHistory' = <<[garment |-> NullGarment, imageUrl |-> ModelImage(m)]>>
    /\ poseVariations' = (0 :> ModelImage(m))
    /\ currentPoseIndex' = 0
    /\ appState' = [view |-> "dressing_room", model |-> m]

\* the history tracker after an initialize
SymInit(h) == [base |-> h, phase |-> "apply", applied |-> 0, excess |-> 0]

\* handleModelSelect(model)
HandleModelSelect(m) ==
    /\ appState.view = "model_selection"
    /\ TransitionToDressingRoom(m)
    /\ lastOp' = OpInit
    /\ sym' = SymInit(outfitHistory')
    /\ UNCHANGED <<ops, isLoading, inflight>>
    /\ UNCHANGED savedVars

\* onFileForModelCreation: the user picks a file for a new model
OnFileForModelCreation ==
    /\ appState.view = "model_selection"
    /\ appState' = [appState EXCEPT !.view = "model_creation"]
    /\ lastOp' = Op("fileForModelCreation", 0)
    /\ UNCHANGED <<ops, outfitHistory, currentPoseIndex, poseVariations, isLoading,
                   inflight, sym>>
    /\ UNCHANGED savedVars

\* handleModelCreated(name, modelUrl) up to its await of storage.saveModelForUser
HandleModelCreated(m) ==
    /\ appState.view = "model_creation"
    /\ \A a \in DOMAIN inflight : a.kind # "saveModel"
    /\ inflight' = With(inflight, Awaited("saveModel", Item(m), EmptyImage, 0))
    /\ lastOp' = Op("modelCreated", 0)
    /\ UNCHANGED <<ops, appState, outfitHistory, currentPoseIndex, poseVariations,
                   isLoading, sym>>
    /\ UNCHANGED savedVars

\* storage.saveModelForUser settles: handleModelCreated goes on to
\* transitionToDressingRoom, or ends with the rejection
SaveModelDone(a, ok) ==
    /\ a.kind = "saveModel"
    /\ inflight' = Without(inflight, a)
    /\ IF ok
       THEN /\ TransitionToDressingRoom(a.garment.id)
            /\ lastOp' = OpInit
            /\ sym' = SymInit(outfitHistory')
       ELSE /\ lastOp' = Op("modelCreateFailed", 0)
            /\ UNCHANGED <<appState, outfitHistory, currentPoseIndex, poseVariations, sym>>
    /\ UNCHANGED <<ops, isLoading>>
    /\ UNCHANGED savedVars

\* handleStartOver
HandleStartOver ==
    /\ appState.view = "dressing_room"
    /\ appState' = [view |-> "model_selection", model |-> "none"]
    /\ lastOp' = Op("startOver", 0)
    /\ UNCHANGED <<ops, outfitHistory, currentPoseIndex, poseVariations, isLoading,
                   inflight, sym>>
    /\ UNCHANGED savedVars

\* a base image taken from what is displayed
AddGarmentBaseDisplayed == displayImageUrl

\* const baseImage = outfitHistory[outfitHistory.length - 1].imageUrl of
\* handleAddGarment
AddGarmentBase == TopImage(outfitHistory)

\* WardrobeModal.handleGarmentClick(item) up to its await of urlToFile.  The
\* onGarmentSelect it will call is the handleAddGarment of this render, which
\* reads the outfitHistory of this render: the base image is fixed here.  The
\* modal is open whenever the user wants it (onAddGarment opens it, unguarded).
HandleGarmentClick(g) ==
    /\ appState.view = "dressing_room"
    /\ ~(isLoading \/ g \in activeGarmentIds)
    /\ Room
    /\ inflight' = With(inflight, Awaited("click", Item(g), AddGarmentBase, 0))
    /\ ops' = ops + 1
    /\ lastOp' = Op("garmentClick", 0)
    /\ UNCHANGED <<appState, outfitHistory, currentPoseIndex, poseVariations,
                   isLoading, sym>>
    /\ UNCHANGED savedVars

\* urlToFile settles: on success handleGarmentClick calls onGarmentSelect, that is
\* handleAddGarment up to its awaits (imageUrlToDataUrl, then
\* generateVirtualTryOnImage); on failure it sets the modal's error
UrlToFileDone(a, ok) ==
    /\ a.kind = "click"
    /\ IF ok
       THEN /\ inflight' = With(Without(inflight, a), [a EXCEPT !.kind = "tryon"])
            /\ isLoading' = TRUE
            /\ lastOp' = Op("addGarment", 0)
       ELSE /\ inflight' = Without(inflight, a)
            /\ lastOp' = Op("garmentClickFailed", 0)
            /\ UNCHANGED <<isLoading>>
    /\ UNCHANGED <<ops, appState, outfitHistory, currentPoseIndex, poseVariations, sym>>
    /\ UNCHANGED savedVars

\* setPoseVariations({ 0: newImageUrl }) kept as a merge into the previous poses
AppliedPoseVariationsMerge(pv, img) ==
    [p \in DOMAIN pv \cup {0} |-> IF p = 0 THEN img ELSE pv[p]]

\* setPoseVariations({ 0: newImageUrl }) of handleAddGarment
AppliedPoseVariations(pv, img) == 0 :> img

\* the history tracker after a successful apply
SymApplied(s) ==
    IF s.phase = "apply"
    THEN [s EXCEPT !.applied = @ + 1, !.excess = @ + 1]
    ELSE [s EXCEPT !.phase = "mixed"]

\* the history tracker after a removeLastGarment call
SymRemoved(s) ==
    IF s.phase \in {"apply", "remove"} /\ s.excess > 0
    THEN [s EXCEPT !.phase = "remove", !.excess = @ - 1]
    ELSE [s EXCEPT !.phase = "mixed"]

\* a catch block of handleAddGarment that also resets the pose state
AddGarmentCatchResetsPose ==
    /\ currentPoseIndex' = 0
    /\ poseVariations' = << >>
    /\ UNCHANGED <<outfitHistory, sym>>

\* the catch block of handleAddGarment: the error is alerted, no state is set
AddGarmentCatch == UNCHANGED <<outfitHistory, currentPoseIndex, poseVariations, sym>>

\* the try-on of handleAddGarment settles: the layer is appended, or the error
\* is alerted; finally isLoading is reset
TryOnDone(a, ok) ==
    /\ a.kind = "tryon"
    /\ inflight' = Without(inflight, a)
    /\ isLoading' = FALSE
    /\ IF ok
       THEN LET newImageUrl == TryOnImage(a.base, a.garment.id) IN
            /\ outfitHistory' = Append(outfitHistory,
                                  [garment |-> a.garment, imageUrl |-> newImageUrl])
            /\ currentPoseIndex' = 0
            /\ poseVariations' = AppliedPoseVariations(poseVariations, newImageUrl)
            /\ lastOp' = OpApplied
            /\ sym' = SymApplied(sym)
       ELSE /\ lastOp' = Op("applyFailed", 0)
            /\ AddGarmentCatch
    /\ UNCHANGED <<ops, appState>>
    /\ UNCHANGED savedVars

\* handleRemoveLastGarment without its guard
RemoveGuardAlways(h) == TRUE

\* the guard of handleRemoveLastGarment, admitting a history of one layer
RemoveGuardAtOne(h) == Len(h) >= 1

\* the guard of handleRemoveLastGarment
RemoveGuard(h) == Len(h) > 1

\* prev.slice(1): the first layer dropped
DropFirst(h) == SubSeq(h, 2, Len(h))

\* prev.slice(0, -1)
DropLast(h) == SubSeq(h, 1, Len(h) - 1)

\* handleRemoveLastGarment
HandleRemoveLastGarment ==
    /\ appState.view = "dressing_room"
    /\ IF RemoveGuard(outfitHistory)
       THEN /\ outfitHistory' = DropLast(outfitHistory)
            /\ currentPoseIndex' = 0
            /\ poseVariations' = << >>
       ELSE UNCHANGED <<outfitHistory, currentPoseIndex, poseVariations>>
    /\ lastOp' = OpRemove
    /\ sym' = SymRemoved(sym)
    /\ UNCHANGED <<ops, appState, isLoading, inflight>>
    /\ UNCHANGED savedVars

\* the test of handleSelectPose without a look at the stored image
PoseHitNever(pv, index) == FALSE

\* if (poseVariations[index]) return; // Already generated
PoseHit(pv, index) == Truthy(PoseLookup(pv, index))

\* handleSelectPose(index) up to its awaits (imageUrlToDataUrl, then
\* generatePoseVariation)
HandleSelectPose(p) ==
    /\ appState.view = "dressing_room"
    /\ IF isLoading
       THEN /\ lastOp' = OpSelect("selectPoseIgnored", p)
            /\ UNCHANGED <<currentPoseIndex, isLoading, inflight, ops>>
       ELSE /\ currentPoseIndex' = p
            /\ IF PoseHit(poseVariations, p)
               THEN /\ lastOp' = OpSelect("selectPoseHit", p)
                    /\ UNCHANGED <<isLoading, inflight, ops>>
               ELSE /\ Room
                    /\ ops' = ops + 1
                    /\ isLoading' = TRUE
                    /\ inflight' = With(inflight,
                                     Awaited("pose", NullGarment, TopImage(outfitHistory), p))
                    /\ lastOp' = OpSelect("selectPoseStart", p)
    /\ UNCHANGED <<appState, outfitHistory, poseVariations, sym>>
    /\ UNCHANGED savedVars

\* setPoseVariations(prev => ({ ...prev, [index]: newImageUrl }))
StorePose(pv, index, img) ==
    [p \in DOMAIN pv \cup {index} |-> IF p = index THEN img ELSE pv[p]]

\* a catch block of handleSelectPose that leaves the pose index as it is
SelectPoseCatchKeepsIndex == UNCHANGED <<currentPoseIndex, poseVariations>>

\* the catch block of handleSelectPose: the error is alerted and
\* setCurrentPoseIndex(0) reverts to a valid pose
SelectPoseCatch ==
    /\ currentPoseIndex' = 0
    /\ UNCHANGED poseVariations

\* the pose generation of handleSelectPose settles: the image is stored, or the
\* error is alerted and the pose reverts to 0; finally isLoading is reset
PoseDone(a, ok) ==
    /\ a.kind = "pose"
    /\ inflight' = Without(inflight, a)
    /\ isLoading' = FALSE
    /\ IF ok
       THEN /\ poseVariations' = StorePose(poseVariations, a.pose,
                                           PoseImage(a.base, a.pose))
            /\ lastOp' = Op("poseOk", a.pose)
            /\ UNCHANGED currentPoseIndex
       ELSE /\ SelectPoseCatch
            /\ lastOp' = Op("poseFailed", a.pose)
    /\ UNCHANGED <<ops, appState, outfitHistory, sym>>
    /\ UNCHANGED savedVars

\* the wardrobe: one item per garment id, unchanged during a run
Wardrobe == {Item(g) : g \in GarmentIds}

\* storage.saveOutfitForUser(userId, name, previewImage, layers): the SavedOutfit
\* created, without its id, name and timestamp
SaveOutfitForUser(previewImage, layers) ==
    [previewImageUrl |-> previewImage, layers |-> layers]

\* a handleSaveOutfit that refuses the empty history only
SaveRefusedWhenEmpty(h) == Len(h) < 1

\* outfitHistory.length <= 1: handleSaveOutfit alerts and returns
SaveRefused(h) == Len(h) <= 1

\* handleSaveOutfit up to its await of storage.saveOutfitForUser.  Its button is
\* disabled while isLoading; the length of the history is tested by the handler.
HandleSaveOutfit ==
    /\ appState.view = "dressing_room"
    /\ ~isLoading
    /\ IF SaveRefused(outfitHistory)
       THEN /\ lastOp' = Op("saveRefused", 0)
            /\ UNCHANGED <<isLoading, inflight, ops>>
       ELSE /\ Room
            /\ ops' = ops + 1
            /\ isLoading' = TRUE
            /\ inflight' = With(inflight,
                               [Awaited("save", NullGarment, displayImageUrl, 0)
                                    EXCEPT !.layers = outfitHistory])
            /\ lastOp' = Op("saveOutfit", 0)
    /\ UNCHANGED <<appState, outfitHistory, currentPoseIndex, poseVariations, sym, savedVars>>

\* storage.saveOutfitForUser settles: the new outfit is put in savedOutfits, or
\* the error is alerted; finally isLoading is reset
SaveOutfitDone(a, ok) ==
    /\ a.kind = "save"
    /\ inflight' = Without(inflight, a)
    /\ isLoading' = FALSE
    /\ IF ok
       THEN /\ savedOutfits' = savedOutfits \cup {SaveOutfitForUser(a.base, a.layers)}
            /\ lastOp' = [Op("saveOk", 0) EXCEPT
                              !.outfit = SaveOutfitForUser(a.base, a.layers)]
       ELSE /\ lastOp' = Op("saveFailed", 0)
            /\ UNCHANGED savedOutfits
    /\ UNCHANGED <<ops, appState, outfitHistory, currentPoseIndex, poseVariations, sym,
                   isSavedOutfitsOpen>>

\* the "Mentett Szettek" button, disabled while isLoading
OpenSavedOutfits ==
    /\ appState.view = "dressing_room"
    /\ ~isLoading
    /\ ~isSavedOutfitsOpen
    /\ isSavedOutfitsOpen' = TRUE
    /\ lastOp' = Op("openSavedOutfits", 0)
    /\ UNCHANGED <<appState, outfitHistory, currentPoseIndex, poseVariations, isLoading,
                   inflight, ops, sym, savedOutfits>>

\* onClose of the saved outfits modal
CloseSavedOutfits ==
    /\ isSavedOutfitsOpen
    /\ isSavedOutfitsOpen' = FALSE
    /\ lastOp' = Op("closeSavedOutfits", 0)
    /\ UNCHANGED <<appState, outfitHistory, currentPoseIndex, poseVariations, isLoading,
                   inflight, ops, sym, savedOutfits>>

\* a rehydration that drops the stored garment
RehydrateGarmentDropped(wardrobe, garment) == NullGarment

\* a rehydration that yields null for a garment the wardrobe does not have
RehydrateGarmentFoundOnly(wardrobe, garment) ==
    IF garment # NullGarment /\ \E w \in wardrobe : w.id = garment.id
    THEN CHOOSE w \in wardrobe : w.id = garment.id
    ELSE NullGarment

\* layer.garment ? wardrobe.find(w => w.id === layer.garment.id) || layer.garment : null
RehydrateGarment(wardrobe, garment) ==
    IF garment = NullGarment THEN NullGarment
    ELSE IF \E w \in wardrobe : w.id = garment.id
         THEN CHOOSE w \in wardrobe : w.id = garment.id
         ELSE garment

\* the layers handleLoadOutfit builds: every imageUrl '' but the last, which is
\* the preview image
RehydratedLayers(o, wardrobe) ==
    [k \in 1..Len(o.layers) |->
        [garment |-> RehydrateGarment(wardrobe, o.layers[k].garment),
         imageUrl |-> IF k = Len(o.layers) THEN o.previewImageUrl ELSE EmptyImage]]

\* handleLoadOutfit(outfitId), called from the saved outfits modal
HandleLoadOutfit(o) ==
    /\ appState.view = "dressing_room"
    /\ isSavedOutfitsOpen
    /\ o \in savedOutfits
    /\ outfitHistory' = RehydratedLayers(o, Wardrobe)
    /\ poseVariations' = (0 :> o.previewImageUrl)
    /\ currentPoseIndex' = 0
    /\ isSavedOutfitsOpen' = FALSE
    /\ lastOp' = [Op("loadOutfit", 0) EXCEPT !.outfit = o,
                                             !.lenBefore = Len(outfitHistory)]
    /\ sym' = [sym EXCEPT !.phase = "mixed"]
    /\ UNCHANGED <<appState, isLoading, inflight, ops, savedOutfits>>

InitStore ==
    /\ appState = [view |-> "model_selection", model |-> "none"]
    /\ outfitHistory = <<>>
    /\ currentPoseIndex = 0
    /\ poseVariations = << >>
    /\ isLoading = FALSE
    /\ inflight = EmptyBag
    /\ ops = 0
    /\ lastOp = NoOp
    /\ sym = SymInit(<<>>)
    /\ savedOutfits = {}
    /\ isSavedOutfitsOpen = FALSE

\* ------------------------------------------------------------------------
\* Outfit layer store, the App with poseImages in every layer
\* ------------------------------------------------------------------------

\* a layer whose only pose image is the default one
DefaultLayer(garment, img) == [garment |-> garment, poseImages |-> (0 :> img)]

\* layer.poseImages[POSE_INSTRUCTIONS[p]], undefined read as ''
PoseImageOf(layer, p) ==
    IF p \in DOMAIN layer.poseImages THEN layer.poseImages[p] ELSE EmptyImage

\* currentLayer?.poseImages[currentPoseInstruction] || null
displayImageUrlV1 ==
    IF outfitHistoryV1 = <<>> THEN EmptyImage
    ELSE PoseImageOf(outfitHistoryV1[Len(outfitHistoryV1)], currentPoseIndexV1)

\* activeGarmentIds of this App
activeGarmentIdsV1 ==
    {outfitHistoryV1[k].garment.id : k \in 1..Len(outfitHistoryV1)} \ {NullGarment.id}

RoomV1 == opsV1 < MaxOps

\* the record of the handler of this App that has just run, with the pose
\* index it found
OpV1(name, pose) == [name |-> name, pose |-> pose, indexBefore |-> currentPoseIndexV1]

\* resetDressingRoom, for the model m selected
ResetDressingRoom(m) ==
    /\ outfitHistoryV1' = <<DefaultLayer(NullGarment, ModelImage(m))>>
    /\ currentPoseIndexV1' = 0

\* handleModelSelect(model) and the effect that runs resetDressingRoom once the
\* dressing room is shown
HandleModelSelectV1(m) ==
    /\ screen = "MODEL_SELECTION"
    /\ selectedModel' = m
    /\ screen' = "DRESSING_ROOM"
    /\ ResetDressingRoom(m)
    /\ lastOpV1' = OpV1("initialize", 0)
    /\ UNCHANGED <<isLoadingV1, inflightV1, opsV1>>

\* handleStartOver of this App
HandleStartOverV1 ==
    /\ screen = "DRESSING_ROOM"
    /\ selectedModel' = "none"
    /\ outfitHistoryV1' = <<>>
    /\ screen' = "MODEL_SELECTION"
    /\ lastOpV1' = OpV1("startOver", 0)
    /\ UNCHANGED <<currentPoseIndexV1, isLoadingV1, inflightV1, opsV1>>

\* WardrobeModal.handleGarmentClick(item) up to its await of urlToFile; the
\* handleGarmentSelectForTryOn it will call reads the outfitHistory of this render
HandleGarmentClickV1(g) ==
    /\ screen = "DRESSING_ROOM"
    /\ ~(isLoadingV1 \/ g \in activeGarmentIdsV1)
    /\ RoomV1
    /\ inflightV1' = With(inflightV1,
                          Awaited("click", Item(g),
                                  PoseImageOf(outfitHistoryV1[Len(outfitHistoryV1)], 0), 0))
    /\ opsV1' = opsV1 + 1
    /\ lastOpV1' = OpV1("garmentClick", 0)
    /\ UNCHANGED <<screen, selectedModel, outfitHistoryV1, currentPoseIndexV1, isLoadingV1>>

\* urlToFile settles: on success handleGarmentSelectForTryOn runs up to its
\* call of generateVirtualTryOnImage (a missing base image resets the room)
UrlToFileDoneV1(a, ok) ==
    /\ a.kind = "click"
    /\ IF ~ok
       THEN /\ inflightV1' = Without(inflightV1, a)
            /\ lastOpV1' = OpV1("garmentClickFailed", 0)
            /\ UNCHANGED <<isLoadingV1, outfitHistoryV1, currentPoseIndexV1>>
       ELSE IF Truthy(a.base)
       THEN /\ inflightV1' = With(Without(inflightV1, a), [a EXCEPT !.kind = "tryon"])
            /\ isLoadingV1' = TRUE
            /\ lastOpV1' = OpV1("addGarment", 0)
            /\ UNCHANGED <<outfitHistoryV1, currentPoseIndexV1>>
       ELSE /\ inflightV1' = Without(inflightV1, a)
            /\ isLoadingV1' = FALSE
            /\ ResetDressingRoom(selectedModel)
            /\ lastOpV1' = OpV1("baseImageMissing", 0)
    /\ UNCHANGED <<screen, selectedModel, opsV1>>

\* generateVirtualTryOnImage settles: then appends the layer, catch alerts,
\* finally resets isLoading
TryOnDoneV1(a, ok) ==
    /\ a.kind = "tryon"
    /\ inflightV1' = Without(inflightV1, a)
    /\ isLoadingV1' = FALSE
    /\ IF ok
       THEN /\ outfitHistoryV1' = Append(outfitHistoryV1,
                                    DefaultLayer(a.garment, TryOnImage(a.base, a.garment.id)))
            /\ currentPoseIndexV1' = 0
            /\ lastOpV1' = OpV1("applyOk", 0)
       ELSE /\ lastOpV1' = OpV1("applyFailed", 0)
            /\ UNCHANGED <<outfitHistoryV1, currentPoseIndexV1>>
    /\ UNCHANGED <<screen, selectedModel, opsV1>>

\* handleRemoveLastGarment of this App
HandleRemoveLastGarmentV1 ==
    /\ screen = "DRESSING_ROOM"
    /\ IF RemoveGuard(outfitHistoryV1)
       THEN /\ outfitHistoryV1' = DropLast(outfitHistoryV1)
            /\ currentPoseIndexV1' = 0
       ELSE UNCHANGED <<outfitHistoryV1, currentPoseIndexV1>>
    /\ lastOpV1' = OpV1("removeLastGarment", 0)
    /\ UNCHANGED <<screen, selectedModel, isLoadingV1, inflightV1, opsV1>>

\* handlePoseSelect(poseIndex) up to its await of generatePoseVariation; the
\* handler does not look at isLoading
HandlePoseSelectV1(p) ==
    /\ screen = "DRESSING_ROOM"
    /\ outfitHistoryV1 # <<>>
    /\ LET currentLayer == outfitHistoryV1[Len(outfitHistoryV1)] IN
       IF Truthy(PoseImageOf(currentLayer, p))
       THEN /\ currentPoseIndexV1' = p
            /\ lastOpV1' = OpV1("selectPoseHit", p)
            /\ UNCHANGED <<isLoadingV1, inflightV1, opsV1>>
       ELSE IF Truthy(PoseImageOf(currentLayer, 0))
       THEN /\ RoomV1
            /\ opsV1' = opsV1 + 1
            /\ isLoadingV1' = TRUE
            /\ inflightV1' = With(inflightV1,
                                  Awaited("pose", NullGarment, PoseImageOf(currentLayer, 0), p))
            /\ lastOpV1' = OpV1("selectPoseStart", p)
            /\ UNCHANGED currentPoseIndexV1
       ELSE /\ isLoadingV1' = FALSE
            /\ lastOpV1' = OpV1("sourceImageMissing", p)
            /\ UNCHANGED <<currentPoseIndexV1, inflightV1, opsV1>>
    /\ UNCHANGED <<screen, selectedModel, outfitHistoryV1>>

\* setOutfitHistory(prev => ...): the pose image is put in the last layer of prev
WithPoseImage(h, p, img) ==
    IF h = <<>> THEN h
    ELSE [h EXCEPT ![Len(h)].poseImages =
              [q \in DOMAIN @ \cup {p} |-> IF q = p THEN img ELSE @[q]]]

\* generatePoseVariation settles: the image is stored in the last layer and the
\* pose index set, or the error is alerted; finally isLoading is reset
PoseDoneV1(a, ok) ==
    /\ a.kind = "pose"
    /\ inflightV1' = Without(inflightV1, a)
    /\ isLoadingV1' = FALSE
    /\ IF ok
       THEN /\ outfitHistoryV1' = WithPoseImage(outfitHistoryV1, a.pose,
                                                PoseImage(a.base, a.pose))
            /\ currentPoseIndexV1' = a.pose
            /\ lastOpV1' = OpV1("poseOk", a.pose)
       ELSE /\ lastOpV1' = OpV1("poseFailed", a.pose)
            /\ UNCHANGED <<outfitHistoryV1, currentPoseIndexV1>>
    /\ UNCHANGED <<screen, selectedModel, opsV1>>

\* the state of this App once the user has logged in (handleLoginSuccess)
InitStoreV1 ==
    /\ screen = "MODEL_SELECTION"
    /\ selectedModel = "none"
    /\ outfitHistoryV1 = <<>>
    /\ currentPoseIndexV1 = 0
    /\ isLoadingV1 = FALSE
    /\ inflightV1 = EmptyBag
    /\ opsV1 = 0
    /\ lastOpV1 = [name |-> "none", pose |-> 0, indexBefore |-> 0]

\* ------------------------------------------------------------------------
\* handleLoadOutfit over wardrobes that changed after the outfit was saved
\* ------------------------------------------------------------------------

\* WardrobeItem.category
Categories == {"Tops", "Pants"}

\* a wardrobe item or a stored garment
ItemIn(g, category) == [id |-> g, category |-> category]

\* the wardrobes: at most one item per id
Wardrobes ==
    {w \in SUBSET {ItemIn(g, c) : g \in GarmentIds, c \in Categories} :
        \A x, y \in w : x.id = y.id => x = y}

\* the layers of the saved outfits: the root and one or two distinct garments
SavedLayers ==
    {<<[garment |-> NullGarment, imageUrl |-> ModelImage("m1")]>> \o q :
        q \in {<<[garment |-> x, imageUrl |-> TryOnImage(ModelImage("m1"), x.id)]>> :
                  x \in {ItemIn(g, c) : g \in GarmentIds, c \in Categories}}
            \cup
              {<<[garment |-> x, imageUrl |-> TryOnImage(ModelImage("m1"), x.id)],
                 [garment |-> y, imageUrl |-> TryOnImage(TryOnImage(ModelImage("m1"), x.id), y.id)]>> :
                  x, y \in {ItemIn(g, c) : g \in GarmentIds, c \in Categories}}}

NoLoadInput == [wardrobe |-> {}, outfit |-> NoOutfit]

\* a saved outfit and the wardrobe of the moment of its load
PickLoadInput(w, layers) ==
    /\ loadInput = NoLoadInput
    /\ loadResult = <<>>
    /\ loadInput' = [wardrobe |-> w,
                     outfit |-> SaveOutfitForUser(TopImage(layers), layers)]
    /\ UNCHANGED loadResult

\* handleLoadOutfit on that outfit and wardrobe
ApplyLoadOutfit ==
    /\ loadInput # NoLoadInput
    /\ loadResult = <<>>
    /\ loadResult' = RehydratedLayers(loadInput.outfit, loadInput.wardrobe)
    /\ UNCHANGED loadInput

InitLoad ==
    /\ loadInput = NoLoadInput
    /\ loadResult = <<>>

\* ------------------------------------------------------------------------
\* lib/storage: writes to the user document
\* ------------------------------------------------------------------------

\* the calls of one run
MaxWrites == 3

\* ids of the garments a user uploads
UserGarments == {"g1", "g2"}

\* ids of defaultWardrobe
DefaultGarments == {"d1"}

\* names of the models a user creates
ModelNames == {"n1"}

\* the document signup stores (passwordHash and createdAt are never changed)
SignedUp == [models |-> <<>>, wardrobe |-> <<>>, hiddenDefaultGarments |-> <<>>]

\* setDoc(userRef, userData, { merge: true }): the fields of userData replace
\* the stored fields of the same name, the other stored fields stay
SaveUserData(stored, userData) ==
    [f \in DOMAIN stored \cup DOMAIN userData |->
        IF f \in DOMAIN userData THEN userData[f] ELSE stored[f]]

\* seq holds x
Has(seq, x) == \E k \in DOMAIN seq : seq[k] = x

\* saveModelForUser: { ...userData, models: [...(userData.models || []), newModel] }
SaveModelData(userData, m) == [userData EXCEPT !.models = Append(@, m)]

\* saveGarmentForUser: { ...userData, wardrobe: [updatedGarment, ...(userData.wardrobe || [])] }
SaveGarmentData(userData, g) == [userData EXCEPT !.wardrobe = <<g>> \o @]

\* deleteGarmentForUser: a default garment is pushed to hiddenDefaultGarments,
\* a garment of the user is filtered out of the wardrobe
DeleteGarmentData(userData, g) ==
    IF g \in DefaultGarments
    THEN [userData EXCEPT !.hiddenDefaultGarments = Append(@, g)]
    ELSE [userData EXCEPT !.wardrobe = SelectSeq(@, LAMBDA x : x # g)]

\* the data a call passes to saveUserData
WrittenData(w) ==
    CASE w.op = "saveModelForUser"     -> SaveModelData(w.userData, w.arg)
      [] w.op = "saveGarmentForUser"   -> SaveGarmentData(w.userData, w.arg)
      [] w.op = "deleteGarmentForUser" -> DeleteGarmentData(w.userData, w.arg)

\* deleteGarmentForUser of a default garment that is hidden already saves nothing
NothingToSave(op, arg, userData) ==
    /\ op = "deleteGarmentForUser"
    /\ arg \in DefaultGarments
    /\ Has(userData.hiddenDefaultGarments, arg)

WriteIds == 1..MaxWrites

\* a call of saveModelForUser, saveGarmentForUser or deleteGarmentForUser up to
\* its await of getUserData
StartWrite(op, arg) ==
    /\ Len(writes) < MaxWrites
    /\ writes' = Append(writes, [op |-> op, arg |-> arg, phase |-> "getUserData",
                                 userData |-> SignedUp])
    /\ UNCHANGED userDoc

\* getUserData settles: the call holds the document as read and goes on, over
\* its upload or deletion of the image, to its await of saveUserData; a failed
\* read is rethrown
GetUserDataDone(c, ok) ==
    /\ c \in DOMAIN writes
    /\ writes[c].phase = "getUserData"
    /\ writes' = [writes EXCEPT ![c] =
                    IF ~ok THEN [@ EXCEPT !.phase = "failed"]
                    ELSE IF NothingToSave(@.op, @.arg, userDoc)
                         THEN [@ EXCEPT !.phase = "done", !.userData = userDoc]
                         ELSE [@ EXCEPT !.phase = "saveUserData", !.userData = userDoc]]
    /\ UNCHANGED userDoc

\* saveUserData settles (or the image upload before it failed): the document is
\* written from the data read earlier, or the error is rethrown
SaveUserDataDone(c, ok) ==
    /\ c \in DOMAIN writes
    /\ writes[c].phase = "saveUserData"
    /\ IF ok
       THEN /\ userDoc' = SaveUserData(userDoc, WrittenData(writes[c]))
            /\ writes' = [writes EXCEPT ![c].phase = "done"]
       ELSE /\ writes' = [writes EXCEPT ![c].phase = "failed"]
            /\ UNCHANGED userDoc

InitStorage ==
    /\ userDoc = SignedUp
    /\ writes = <<>>

Init == InitLoader /\ InitStore /\ InitStoreV1 /\ InitLoad /\ InitStorage

NextLoader ==
    /\ \/ \E i \in Instances, src \in Urls : Load(i, src)
       \/ \E c \in running, ok \in BOOLEAN : FetchDone(c, ok)
       \/ \E c \in CallIds : PollTick(c)
       \/ \E i \in Instances : CleanupEffect(i)
    /\ UNCHANGED exceptLoader

SpecLoader == Init /\ [][NextLoader]_vars

\* every started fetch completes (img.onload or img.onerror fires) and every
\* 30 ms interval keeps ticking
LoaderFairness ==
    \A c \in 1..MaxCalls :
        /\ WF_vars((\E ok \in BOOLEAN : FetchDone(c, ok)) /\ UNCHANGED exceptLoader)
        /\ WF_vars(PollTick(c) /\ UNCHANGED exceptLoader)

SpecLoaderLive == Init /\ [][NextLoader]_vars /\ LoaderFairness

NextStore ==
    /\ \/ \E m \in Models : HandleModelSelect(m)
       \/ OnFileForModelCreation
       \/ \E m \in Models : HandleModelCreated(m)
       \/ \E a \in DOMAIN inflight, ok \in BOOLEAN : SaveModelDone(a, ok)
       \/ HandleStartOver
       \/ \E g \in GarmentIds : HandleGarmentClick(g)
       \/ \E a \in DOMAIN inflight, ok \in BOOLEAN : UrlToFileDone(a, ok)
       \/ \E a \in DOMAIN inflight, ok \in BOOLEAN : TryOnDone(a, ok)
       \/ HandleRemoveLastGarment
       \/ \E p \in Poses : HandleSelectPose(p)
       \/ \E a \in DOMAIN inflight, ok \in BOOLEAN : PoseDone(a, ok)
       \/ HandleSaveOutfit
       \/ \E a \in DOMAIN inflight, ok \in BOOLEAN : SaveOutfitDone(a, ok)
       \/ OpenSavedOutfits
       \/ CloseSavedOutfits
       \/ \E o \in savedOutfits : HandleLoadOutfit(o)
    /\ UNCHANGED exceptStore

SpecStore == Init /\ [][NextStore]_vars

NextStoreV1 ==
    /\ \/ \E m \in Models : HandleModelSelectV1(m)
       \/ HandleStartOverV1
       \/ \E g \in GarmentIds : HandleGarmentClickV1(g)
       \/ \E a \in DOMAIN inflightV1, ok \in BOOLEAN : UrlToFileDoneV1(a, ok)
       \/ \E a \in DOMAIN inflightV1, ok \in BOOLEAN : TryOnDoneV1(a, ok)
       \/ HandleRemoveLastGarmentV1
       \/ \E p \in Poses : HandlePoseSelectV1(p)
       \/ \E a \in DOMAIN inflightV1, ok \in BOOLEAN : PoseDoneV1(a, ok)
    /\ UNCHANGED exceptStoreV1

SpecStoreV1 == Init /\ [][NextStoreV1]_vars

NextLoad ==
    /\ \/ \E w \in Wardrobes, layers \in SavedLayers : PickLoadInput(w, layers)
       \/ ApplyLoadOutfit
    /\ UNCHANGED exceptLoad

SpecLoad == Init /\ [][NextLoad]_vars

NextStorage ==
    /\ \/ \E m \in ModelNames : StartWrite("saveModelForUser", m)
       \/ \E g \in UserGarments : StartWrite("saveGarmentForUser", g)
       \/ \E g \in UserGarments \cup DefaultGarments : StartWrite("deleteGarmentForUser", g)
       \/ \E c \in WriteIds, ok \in BOOLEAN : GetUserDataDone(c, ok)
       \/ \E c \in WriteIds, ok \in BOOLEAN : SaveUserDataDone(c, ok)
    /\ UNCHANGED exceptStorage

SpecStorage == Init /\ [][NextStorage]_vars

\* ------------------------------------------------------------------------
\* Properties of the loader
\* ------------------------------------------------------------------------

\* the fetches of instance i that were started and have not completed
RunningOf(i) == {c \in running : calls[c].inst = i}

\* C1: for a loader instance whose run consists of load calls and fetch
\* completions (its cleanup has not run), the number of fetches started and not
\* yet completed never exceeds the concurrency limit.
LoaderBound ==
    \A i \in Instances : ~tornDown[i] => Cardinality(RunningOf(i)) <= Concurrency

\* C1 witness: an instance at its limit, with a further task waiting in its queue.
LoaderBoundWitness ==
    \E i \in Instances :
        /\ ~tornDown[i]
        /\ Cardinality(RunningOf(i)) = Concurrency
        /\ queueRef[i] # <<>>

\* C2: loads of one url made before its first fetch has completed start exactly
\* one fetch: no two fetches of the same url are ever in flight together.
OneFetchPerUrl ==
    \A c, d \in running : calls[c].src = calls[d].src => c = d

\* a load of src has succeeded: its fetch completed and filled the cache
Succeeded(src) ==
    \E d \in CallIds :
        calls[d].src = src /\ calls[d].kind = "fetch" /\ calls[d].state = "resolved"

\* C3: once a load(url) has succeeded, a later load(url) returns the cached value
\* at once and starts no fetch, adds nothing to the in-flight set or to a queue;
\* and no step, a cleanup included, removes an entry from the cache.
CachedLoadIsFree ==
    [][ /\ CACHE \subseteq CACHE'
        /\ (Len(calls') = Len(calls) + 1 /\ Succeeded(calls'[Len(calls')].src))
              => /\ calls'[Len(calls')].state = "resolved"
                 /\ calls'[Len(calls')].kind = "hit"
                 /\ UNCHANGED <<CACHE, PENDING, queueRef, activeRef, running>>
      ]_vars

\* C3 witness: a load served from the cache after a consumer was torn down.
CachedLoadWitness ==
    \E c \in CallIds :
        /\ calls[c].kind = "hit"
        /\ Succeeded(calls[c].src)
        /\ \E i \in Instances : tornDown[i]

\* the elements of a sequence
Range(q) == {q[k] : k \in 1..Len(q)}

\* C4: when the fetch of job c fails, the promise of c rejects and no other
\* promise changes, the marker of its url is cleared, the counter goes down by
\* one and the oldest queued job of the instance, if any, starts in its place;
\* every other job stays in flight or queued and so can still complete.
FailureIsLocal ==
    [][ \A c \in running :
          (c \notin running' /\ calls'[c].state = "rejected") =>
            LET i == calls[c].inst IN
            /\ \A d \in CallIds \ {c} : calls'[d].state = calls[d].state
            /\ calls[c].src \notin PENDING'
            /\ IF queueRef[i] # <<>>
               THEN /\ Head(queueRef[i]) \in running'
                    /\ queueRef'[i] = Tail(queueRef[i])
                    /\ activeRef'[i] = activeRef[i]
               ELSE /\ queueRef'[i] = <<>>
                    /\ activeRef'[i] = activeRef[i] - 1
            /\ running \ {c} \subseteq running'
            /\ \A j \in Instances \ {i} :
                  queueRef'[j] = queueRef[j] /\ activeRef'[j] = activeRef[j]
      ]_vars

\* C4 witness: a job that was queued behind a failing fetch, was started by that
\* failure's completion and has itself completed.
FailureIsLocalWitness ==
    \E c, d \in CallIds :
        /\ c # d
        /\ calls[c].state = "rejected"
        /\ calls[d].startedBy = c
        /\ calls[d].state = "resolved"

\* C5: the consumers share one pool: the fetches in flight over all instances
\* never exceed the concurrency limit.
SharedPoolBound == Cardinality(running) <= Concurrency

\* C16: every promise returned by load(url) eventually settles, given that
\* every started fetch completes.
EveryLoadSettles ==
    \A c \in 1..MaxCalls :
        (Len(calls) >= c /\ calls[c].state = "pending")
            ~> (Len(calls) >= c /\ calls[c].state # "pending")

\* the fetch of call c has been started
Started(c) == calls[c].kind = "fetch" /\ calls[c].startedBy # 0

\* C17: tasks start in the order of their enqueueing: a task still waiting in
\* the queue of a loader was enqueued after every task of that loader whose
\* fetch has started, and the queue holds its tasks oldest first.
FifoStart ==
    \A i \in Instances :
        /\ \A k \in 1..Len(queueRef[i]) - 1 : queueRef[i][k] < queueRef[i][k + 1]
        /\ \A a \in Range(queueRef[i]) : \A b \in CallIds :
              (calls[b].inst = i /\ Started(b)) => b < a

\* C17 witness: of two tasks of a loader, the older one was started from the
\* queue by a completion and is in flight, the newer one is still waiting.
FifoStartWitness ==
    \E i \in Instances : \E a, b \in CallIds :
        /\ calls[a].inst = i /\ calls[b].inst = i
        /\ a < b
        /\ Started(a) /\ calls[a].startedBy # a
        /\ calls[a].state = "pending"
        /\ b \in Range(queueRef[i])

\* C18: no step removes a task from a queue without starting it, and no step
\* clears the in-flight marker of a url whose fetch has not finished.
NoCancellation ==
    [][ /\ \A i \in Instances : \A c \in Range(queueRef[i]) :
              c \in Range(queueRef'[i]) \/ c \in running'
        /\ \A c \in running \cap running' : calls[c].src \in PENDING => calls[c].src \in PENDING'
      ]_vars

\* ------------------------------------------------------------------------
\* Properties of the outfit layer store
\* ------------------------------------------------------------------------

\* C6: right after initialize(img) the history is one layer with garment null,
\* currentPoseIndex is the default pose 0 and the displayed image is img, the
\* image of the model selected or created.
InitializeResets ==
    lastOp.name = "initialize" =>
        /\ appState.view = "dressing_room"
        /\ Len(outfitHistory) = 1
        /\ outfitHistory[1].garment = NullGarment
        /\ currentPoseIndex = 0
        /\ displayImageUrl = ModelImage(appState.model)

\* C6 witness: an initialize that replaced a history with garments, shown in a
\* non-default pose.
InitializeResetsWitness ==
    /\ lastOp.name = "initialize"
    /\ lastOp.lenBefore > 1
    /\ lastOp.pose # 0
    /\ lastOp.cachedBefore # {}

\* C7: k successful applies followed by k removeLastGarment calls leave the
\* history equal to the one initialize produced.
PopSymmetry ==
    (sym.phase # "mixed" /\ sym.excess = 0) => outfitHistory = sym.base

\* C7 witness: two applies undone by two removes.
PopSymmetryWitness ==
    /\ sym.phase = "remove"
    /\ sym.applied = 2
    /\ sym.excess = 0
    /\ lastOp.name = "removeLastGarment"

\* C8: removeLastGarment on a history of one layer changes neither the history
\* nor currentPoseIndex nor the cached pose images.
RemoveAtFloorIsNoOp ==
    [][ (lastOp'.name = "removeLastGarment" /\ Len(outfitHistory) = 1)
          => UNCHANGED <<outfitHistory, currentPoseIndex, poseVariations>>
      ]_vars

\* C8 witness: removeLastGarment was called on a one-layer history shown in a
\* cached non-default pose.
RemoveAtFloorWitness ==
    /\ lastOp.name = "removeLastGarment"
    /\ lastOp.lenBefore = 1
    /\ currentPoseIndex # 0
    /\ currentPoseIndex \in CachedPoses(poseVariations)

SelectOps == {"selectPoseIgnored", "selectPoseHit", "selectPoseStart"}

\* C9: when applyGarment succeeds the pose cache holds the new layer's default
\* image only, so no non-default pose is a hit; a selectPose of a non-default
\* pose made next starts a pose generation from the new topmost layer's image.
PoseCacheScoped ==
    [][ /\ lastOp'.name = "applyOk" =>
              /\ poseVariations' = (0 :> TopImage(outfitHistory'))
              /\ \A p \in Poses \ {0} : ~PoseHit(poseVariations', p)
        /\ (lastOp.name = "applyOk" /\ lastOp'.name \in SelectOps /\ lastOp'.pose # 0) =>
              /\ inflight' = With(inflight, Awaited("pose", NullGarment,
                                                    TopImage(outfitHistory), lastOp'.pose))
              /\ ops' = ops + 1
      ]_vars

\* C9 witness: a pose that was cached for the previous topmost layer is
\* selected right after the apply.
PoseCacheScopedWitness ==
    /\ lastOp.name = "selectPoseStart"
    /\ lastOp.after = "applyOk"
    /\ lastOp.pose \in lastOp.cachedBefore
    /\ Len(outfitHistory) > 1

\* C10: a selectPose made right after a successful selectPose of the same label
\* starts no transform: it sets currentPoseIndex and leaves the history, the
\* cached pose images and the calls in flight as they are.
SecondSelectIsCached ==
    [][ (lastOp.name = "poseOk" /\ lastOp'.name \in SelectOps /\ lastOp'.pose = lastOp.pose) =>
            /\ currentPoseIndex' = lastOp.pose
            /\ ops' = ops
            /\ UNCHANGED <<outfitHistory, poseVariations, inflight, isLoading>>
      ]_vars

\* C10 witness: a non-default pose selected again right after its generation.
SecondSelectWitness ==
    /\ lastOp.name = "selectPoseHit"
    /\ lastOp.after = "samePoseOk"
    /\ lastOp.pose # 0


\* C11: an applyGarment whose transform rejects appends no layer: neither its
\* start nor its rejection changes the history, currentPoseIndex or the cached
\* pose images.
ApplyFailureLeavesState ==
    [][ lastOp'.name \in {"addGarment", "applyFailed"}
          => UNCHANGED <<outfitHistory, currentPoseIndex, poseVariations>>
      ]_vars

\* C11 witness: an apply was rejected on a history with a garment, shown in a
\* cached non-default pose.
ApplyFailureWitness ==
    /\ lastOp.name = "applyFailed"
    /\ Len(outfitHistory) > 1
    /\ currentPoseIndex # 0
    /\ currentPoseIndex \in CachedPoses(poseVariations)


\* the garments of a sequence of layers, root first
Garments(layers) == [k \in 1..Len(layers) |-> layers[k].garment]

\* C12: every saved outfit has more than one layer, the root first; right after
\* it is loaded (the wardrobe unchanged) the history has the saved length and
\* garment sequence, the displayed image is the saved preview image,
\* currentPoseIndex is 0 and no non-default pose is cached.
SaveLoadRoundTrip ==
    /\ \A o \in savedOutfits : Len(o.layers) > 1 /\ o.layers[1].garment = NullGarment
    /\ lastOp.name = "loadOutfit" =>
          /\ Len(outfitHistory) = Len(lastOp.outfit.layers)
          /\ Garments(outfitHistory) = Garments(lastOp.outfit.layers)
          /\ displayImageUrl = lastOp.outfit.previewImageUrl
          /\ currentPoseIndex = 0
          /\ CachedPoses(poseVariations) = {}

\* C12 witness: an outfit saved with a pose variant as its preview is loaded
\* after its garment was removed from the history.
SaveLoadWitness ==
    /\ lastOp.name = "loadOutfit"
    /\ lastOp.lenBefore = 1
    /\ lastOp.outfit \in savedOutfits
    /\ lastOp.outfit.previewImageUrl # TopImage(lastOp.outfit.layers)


\* C13: while a model is selected (the dressing room is shown) the history has
\* at least one layer and its first layer has garment null.
RootLayerPresent ==
    appState.view = "dressing_room" =>
        /\ Len(outfitHistory) >= 1
        /\ outfitHistory[1].garment = NullGarment

\* C13 witness: a loaded outfit was taken off down to its root layer, and
\* removeLastGarment was called once more.
RootLayerWitness ==
    /\ appState.view = "dressing_room"
    /\ lastOp.name = "removeLastGarment"
    /\ lastOp.lenBefore = 1
    /\ savedOutfits # {}
    /\ sym.phase = "mixed"


\* C14: while a model is selected the displayed image is non-empty, and it is
\* the pose image cached for currentPoseIndex when there is one and the topmost
\* layer's default image otherwise.
DisplayedImageDefined ==
    appState.view = "dressing_room" =>
        /\ Truthy(displayImageUrl)
        /\ displayImageUrl = IF PoseHit(poseVariations, currentPoseIndex)
                             THEN poseVariations[currentPoseIndex]
                             ELSE TopImage(outfitHistory)

\* C15: every layer of the history holds a non-empty default image.
EveryLayerHasImage ==
    \A k \in 1..Len(outfitHistory) : Truthy(outfitHistory[k].imageUrl)


\* the transform calls of handleAddGarment that are awaited
TryOns(bag) == {a \in DOMAIN bag : a.kind = "tryon"}

\* C19: the base image an applyGarment passes to the transform is the default
\* image of the layer that is topmost when the garment is chosen, also when a
\* non-default pose variant is displayed: the click fixes it, and the call of
\* the transform that follows passes it on.
ApplyUsesDefaultImage ==
    [][ /\ lastOp'.name = "garmentClick" =>
              \E a \in DOMAIN inflight' :
                  /\ a.kind = "click"
                  /\ a.base = TopImage(outfitHistory)
                  /\ inflight' = With(inflight, a)
        /\ lastOp'.name = "addGarment" =>
              \E a \in DOMAIN inflight :
                  /\ a.kind = "click"
                  /\ inflight' = With(Without(inflight, a), [a EXCEPT !.kind = "tryon"])
      ]_vars

\* C19 witness: a try-on is in flight whose base is the topmost layer's default
\* image while a different image, a pose variant, is displayed.
ApplyUsesDefaultWitness ==
    /\ lastOp.name = "addGarment"
    /\ currentPoseIndex # 0
    /\ displayImageUrl # TopImage(outfitHistory)
    /\ \E a \in TryOns(inflight) : a.base = TopImage(outfitHistory)

\* handleSelectPose of the App with poseVariations: when its pose generation
\* rejects, currentPoseIndex is set to 0 and the history and the cached pose
\* images stay as they are; the start of the call changes neither of the two.
PoseFailureReverts ==
    [][ /\ lastOp'.name = "poseFailed" =>
              /\ currentPoseIndex' = 0
              /\ UNCHANGED <<outfitHistory, poseVariations>>
        /\ lastOp'.name = "selectPoseStart" =>
              UNCHANGED <<outfitHistory, poseVariations>>
      ]_vars

\* a pose generation was rejected while another non-default pose was cached
PoseFailureWitness ==
    /\ lastOp.name = "poseFailed"
    /\ lastOp.pose # 0
    /\ currentPoseIndex = 0
    /\ CachedPoses(poseVariations) # {}


\* handleRemoveLastGarment of the App with poseVariations on a history of more
\* than one layer: the last layer is removed and no other, currentPoseIndex is
\* 0, no non-default pose is cached, and no call is started.
RemovePopsLastLayer ==
    [][ (lastOp'.name = "removeLastGarment" /\ Len(outfitHistory) > 1) =>
            /\ outfitHistory' = SubSeq(outfitHistory, 1, Len(outfitHistory) - 1)
            /\ currentPoseIndex' = 0
            /\ CachedPoses(poseVariations') = {}
            /\ UNCHANGED <<inflight, isLoading, ops>>
      ]_vars

\* a garment was removed while a non-default pose was cached and shown
RemovePopsWitness ==
    /\ lastOp.name = "removeLastGarment"
    /\ lastOp.lenBefore > 1

\* the persistence calls of handleSaveOutfit that are awaited
Saves(bag) == {a \in DOMAIN bag : a.kind = "save"}

\* C22: saveOutfit on a history of at most one layer starts no call and leaves
\* the history and the saved outfits as they are; on a longer history it calls
\* the persistence API with the image displayed at that moment, and that image
\* is the preview of the outfit stored.
SaveOutfitValidated ==
    [][ /\ lastOp'.name \in {"saveRefused", "saveOutfit"} =>
              IF Len(outfitHistory) <= 1
              THEN /\ lastOp'.name = "saveRefused"
                   /\ UNCHANGED <<outfitHistory, savedOutfits, inflight, isLoading>>
              ELSE /\ lastOp'.name = "saveOutfit"
                   /\ UNCHANGED <<outfitHistory, savedOutfits>>
                   /\ \E a \in Saves(inflight') :
                         /\ a.base = displayImageUrl
                         /\ a.layers = outfitHistory
                         /\ inflight' = With(inflight, a)
        /\ lastOp'.name = "saveOk" =>
              \E a \in Saves(inflight) :
                  /\ inflight' = Without(inflight, a)
                  /\ lastOp'.outfit.previewImageUrl = a.base
                  /\ savedOutfits' = savedOutfits \cup {lastOp'.outfit}
                  /\ UNCHANGED outfitHistory
      ]_vars

\* C22 witness: a save was refused on a one-layer history after an outfit with
\* a pose variant as its preview had been stored.
SaveOutfitWitness ==
    /\ lastOp.name = "saveRefused"
    /\ Len(outfitHistory) = 1
    /\ \E o \in savedOutfits : o.previewImageUrl # TopImage(o.layers)

\* ------------------------------------------------------------------------
\* Properties of the outfit layer store, the App with poseImages in every layer
\* ------------------------------------------------------------------------

\* C20: when the pose generation of a selectPose rejects, currentPoseIndex ends
\* at the default pose 0 and the history, with its pose images, is unchanged.
PoseFailureRevertsV1 ==
    [][ lastOpV1'.name = "poseFailed" =>
            /\ currentPoseIndexV1' = 0
            /\ UNCHANGED outfitHistoryV1
      ]_vars


\* the non-default poses with an image in a layer
CachedPosesOf(layer) == {p \in Poses \ {0} : Truthy(PoseImageOf(layer, p))}

\* C21: removeLastGarment on a history of more than one layer removes the last
\* layer and no other, sets currentPoseIndex to 0, leaves no non-default pose
\* variant cached for the new topmost layer and starts no call.
RemovePopsLastLayerV1 ==
    [][ (lastOpV1'.name = "removeLastGarment" /\ Len(outfitHistoryV1) > 1) =>
            /\ outfitHistoryV1' = SubSeq(outfitHistoryV1, 1, Len(outfitHistoryV1) - 1)
            /\ currentPoseIndexV1' = 0
            /\ CachedPosesOf(outfitHistoryV1'[Len(outfitHistoryV1')]) = {}
            /\ UNCHANGED <<inflightV1, isLoadingV1, opsV1>>
      ]_vars


\* ------------------------------------------------------------------------
\* Properties of handleLoadOutfit over changed wardrobes
\* ------------------------------------------------------------------------

\* C23: a load gives every saved layer the wardrobe item with the id of its
\* stored garment when the wardrobe has one and the stored garment otherwise;
\* the root keeps garment null, and there is a layer for every saved layer
\* whatever the wardrobe lacks.
LoadRehydratesGarments ==
    loadResult # <<>> =>
        LET saved == loadInput.outfit.layers IN
        /\ Len(loadResult) = Len(saved)
        /\ loadResult[1].garment = NullGarment
        /\ \A k \in 2..Len(saved) :
              LET stored == saved[k].garment
                  found  == {w \in loadInput.wardrobe : w.id = stored.id}
              IN IF found # {}
                 THEN loadResult[k].garment \in found
                 ELSE loadResult[k].garment = stored

\* C23 witness: a load that took one garment from the wardrobe, its category
\* changed since the save, and kept the stored garment of another, which the
\* wardrobe no longer has.
LoadRehydratesWitness ==
    /\ Len(loadResult) = 3
    /\ loadResult[2].garment \in loadInput.wardrobe
    /\ loadResult[2].garment # loadInput.outfit.layers[2].garment
    /\ \A w \in loadInput.wardrobe : w.id # loadResult[3].garment.id
    /\ loadResult[3].garment = loadInput.outfit.layers[3].garment


\* ------------------------------------------------------------------------
\* Properties of overlapping handlers
\* ------------------------------------------------------------------------

\* the calls of the image transform (try-on or pose) that are in flight
Transforms(bag) ==
    [a \in {x \in DOMAIN bag : x.kind \in {"tryon", "pose"}} |-> bag[a]]

\* C24: at most one call of the image transform is in flight at any time, also
\* when a second garment is clicked before the file of the first click is
\* fetched.
OneTransformInFlight == BagCardinality(Transforms(inflight)) <= 1


\* C25: every non-default pose image held for the topmost layer was generated
\* from the default image of the layer that is topmost now; the result of a
\* pose generation that arrives after the topmost layer changed is not stored.
PosesAreOfTopLayer ==
    \A p \in DOMAIN poseVariations \ {0} :
        poseVariations[p] = PoseImage(TopImage(outfitHistory), p)


\* C26: the image of every layer above the root was generated from the default
\* image of the layer directly beneath it, also when the history is changed
\* while an applyGarment is in flight.
LayersBuiltOnLayerBeneath ==
    \A k \in 2..Len(outfitHistory) :
        outfitHistory[k].imageUrl =
            TryOnImage(outfitHistory[k - 1].imageUrl, outfitHistory[k].garment.id)


\* ------------------------------------------------------------------------
\* Properties of the loader's counter
\* ------------------------------------------------------------------------

\* C27: the active counter of a loader always equals the number of its fetches
\* started and not completed, and stays within 0..Concurrency, also after a
\* teardown reset the counter while fetches were in flight.
ActiveCountsRunningFetches ==
    \A i \in Instances :
        /\ activeRef[i] = Cardinality(RunningOf(i))
        /\ activeRef[i] \in 0..Concurrency


\* C28: the history never holds the same garment id in two layers, also when an
\* item is clicked again before its first application is appended.
GarmentIdsDistinct ==
    \A j, k \in 1..Len(outfitHistory) :
        outfitHistory[j].garment.id = outfitHistory[k].garment.id => j = k


\* the calls in flight whose handlers set isLoading around them: the try-on of
\* handleAddGarment, the pose generation of handleSelectPose and the save of
\* handleSaveOutfit
LoadingCalls(bag) == {a \in DOMAIN bag : a.kind \in {"tryon", "pose", "save"}}

\* C29: isLoading is true whenever a transform or persistence call that a
\* handler started under isLoading is in flight, also when two such calls
\* overlap, and it is false once all of them have settled.
LoadingCoversCalls == isLoading <=> LoadingCalls(inflight) # {}


\* ------------------------------------------------------------------------
\* Properties of the writes to the user document
\* ------------------------------------------------------------------------

\* the calls that completed with the given operation
DoneWrites(op) == {c \in DOMAIN writes : writes[c].op = op /\ writes[c].phase = "done"}

\* some call, in whatever phase, has the given operation and argument
Called(op, arg) == \E c \in DOMAIN writes : writes[c].op = op /\ writes[c].arg = arg

\* C30: overlapping writes to the user document all take effect: once every
\* call has settled, the document holds the model of every completed
\* saveModelForUser, the garment of every completed saveGarmentForUser (unless
\* its deletion was called too), no garment of a completed deleteGarmentForUser
\* (unless its save was called too) and every default garment hidden by one.
NoWriteLost ==
    (\A c \in DOMAIN writes : writes[c].phase \in {"done", "failed"}) =>
        /\ \A c \in DoneWrites("saveModelForUser") : Has(userDoc.models, writes[c].arg)
        /\ \A c \in DoneWrites("saveGarmentForUser") :
              Called("deleteGarmentForUser", writes[c].arg) \/ Has(userDoc.wardrobe, writes[c].arg)
        /\ \A c \in DoneWrites("deleteGarmentForUser") :
              IF writes[c].arg \in DefaultGarments
              THEN Has(userDoc.hiddenDefaultGarments, writes[c].arg)
              ELSE Called("saveGarmentForUser", writes[c].arg) \/ ~Has(userDoc.wardrobe, writes[c].arg)

====
